---- MODULE Spec2Model ----
(***************************************************************************)
(* Model of rl_exercises/week_3/epsilon_greedy_policy.py:                  *)
(* EpsilonGreedyPolicy.__init__ and EpsilonGreedyPolicy.__call__.          *)
(*                                                                         *)
(* Real numbers are kept on a grid of step 1/Scale: the integer e stands   *)
(* for the real e/Scale.  rng.random() yields a value of [0,1), that is a  *)
(* grid value of 0..Scale-1 (0 included, 1 excluded).  The generator made  *)
(* by np.random.default_rng(seed) is a deterministic stream per seed; its  *)
(* outputs are fixed the first time a position of the stream is read       *)
(* (variable tape) and are the same for every later reader.                *)
(***************************************************************************)
EXTENDS Integers, Sequences, FiniteSets, TLC

\* ---- bounds of the model
Scale      == 2      \* grid resolution: reals are multiples of 1/Scale
MaxActions == 2      \* largest action-space size / Q row length
MaxCalls   == 2      \* Select calls per policy instance

Policies == {1, 2}
Seeds    == {0, 42}
SoloSeeds == {0}     \* seed: int = 0
States   == {"s1", "s2"}
Vals     == {0, 1}   \* argmax sees a row only through the places of its maximum
Epsilons == (0 - 1)..(Scale + 1)      \* -1/Scale .. 1 + 1/Scale
Raws     == 0..(Scale - 1)            \* raw generator outputs
Attrs    == {"env", "epsilon", "rng"}

Rows(n)    == [1..n -> Vals]
Zeros(n)   == [i \in 1..n |-> 0]
Seen       == {"s1"}             \* the states the table may hold at the start
Tables(n)  == UNION {[K -> Rows(n)] : K \in SUBSET Seen}
Solo         == {1}
PairStates   == {"s1"}

VARIABLES
  status,      \* per policy: "none" | "ok" | "failed" (AssertionError raised)
  attrs,       \* per policy: the instance attributes assigned so far
  req,         \* per policy: the arguments __init__ was called with
  epsilon,     \* per policy: self.epsilon
  env,         \* per policy: self.env.action_space.n
  rng,         \* per policy: self.rng = [stream, pos]
  tape,        \* per stream: the raw outputs fixed so far
  Q,           \* the action-value table (a DefaultDict)
  defaultRow,  \* the row Q's default factory supplies
  log          \* per policy: one record per completed __call__

vars == <<status, attrs, req, epsilon, env, rng, tape, Q, defaultRow, log>>

\* ---- the generator ------------------------------------------------------
\* variant: np.random.default_rng() without the seed, fresh entropy per instance
StreamIdUnseeded(p, seed) == <<"entropy", p>>

\* np.random.default_rng(seed): the stream is determined by the seed alone
StreamId(p, seed) == <<"seed", seed>>

NoStream == <<"none", 0>>
Streams  == {<<"seed", s>> : s \in Seeds} \cup {<<"entropy", p>> : p \in Policies}

\* the stream read at position pos (0-based); a position not yet fixed takes r
Extend(t, pos, r) == IF pos < Len(t) THEN t ELSE Append(t, r)

\* rng.random(): uniform on [0,1), here the grid value raw/Scale
Random(raw) == raw

\* variant: upper end included, as with endpoint=True
IntegersInclusive(raw, n) == (raw * (n + 1)) \div Scale

\* rng.integers(n): uniform integer of [0, n), by multiply-and-shift
Integers(raw, n) == (raw * n) \div Scale

\* ---- __init__ -----------------------------------------------------------
\* variant: open interval
ValidEpsilonStrict(eps) == 0 < eps /\ eps < Scale

\* assert 0 <= epsilon <= 1
ValidEpsilon(eps) == 0 <= eps /\ eps <= Scale

\* variant: the exploitation probability stored instead
StoredEpsilonComplement(eps) == Scale - eps

\* self.epsilon = epsilon
StoredEpsilon(eps) == eps

Construct(p, n, eps, seed) ==
  /\ status[p] = "none"
  /\ req' = [req EXCEPT ![p] = [n |-> n, epsilon |-> eps, seed |-> seed]]
  /\ IF ValidEpsilon(eps)
       THEN /\ status'  = [status EXCEPT ![p] = "ok"]
            /\ env'     = [env EXCEPT ![p] = n]
            /\ epsilon' = [epsilon EXCEPT ![p] = StoredEpsilon(eps)]
            /\ rng'     = [rng EXCEPT ![p] = [stream |-> StreamId(p, seed), pos |-> 0]]
            /\ attrs'   = [attrs EXCEPT ![p] = Attrs]
       ELSE /\ status'  = [status EXCEPT ![p] = "failed"]
            /\ UNCHANGED <<env, epsilon, rng, attrs>>
  /\ UNCHANGED <<tape, Q, defaultRow, log>>

\* ---- __call__ -----------------------------------------------------------
\* variant: the draw is made before evaluate is looked at
ThresholdDrawsAlways(evaluate) == 1

\* number of threshold draws: `evaluate or ...` short-circuits
ThresholdDraws(evaluate) == IF evaluate THEN 0 ELSE 1

\* variant: non-strict comparison
ExploitGE(evaluate, u, eps) == evaluate \/ u >= eps

\* variant: comparison reversed
ExploitReversed(evaluate, u, eps) == evaluate \/ u < eps

\* evaluate or self.rng.random() > self.epsilon
Exploit(evaluate, u, eps) == evaluate \/ u > eps

\* Q[state] on a DefaultDict: the value read
Lookup(table, state, default) ==
  IF state \in DOMAIN table THEN table[state] ELSE default

\* variant: the row is reset to the default on every lookup
TableAfterLookupReset(table, state, default) == (state :> default) @@ table

\* Q[state] on a DefaultDict: the table afterwards (a missing key is inserted)
TableAfterLookup(table, state, default) ==
  IF state \in DOMAIN table THEN table ELSE table @@ (state :> default)

\* variant: the last maximum is kept
RECURSIVE ArgMaxFromLast(_, _, _)
ArgMaxFromLast(row, i, best) ==
  IF i > Len(row) THEN best
  ELSE ArgMaxFromLast(row, i + 1, IF row[i] >= row[best] THEN i ELSE best)

\* np.argmax: scan in order, keep the first maximum
RECURSIVE ArgMaxFrom(_, _, _)
ArgMaxFrom(row, i, best) ==
  IF i > Len(row) THEN best
  ELSE ArgMaxFrom(row, i + 1, IF row[i] > row[best] THEN i ELSE best)

ArgMax(row) == ArgMaxFrom(row, 2, 1) - 1

Select(p, state, evaluate) ==
  /\ status[p] = "ok"
  /\ \E r1 \in Raws, r2 \in Raws :
       LET sid  == rng[p].stream
           pos  == rng[p].pos
           nT   == ThresholdDraws(evaluate)
           t1   == IF nT = 1 THEN Extend(tape[sid], pos, r1) ELSE tape[sid]
           u    == Random(t1[pos + 1])
           ex   == IF nT = 1 THEN Exploit(evaluate, u, epsilon[p])
                             ELSE Exploit(evaluate, 0, epsilon[p])
           pos1 == pos + nT
           t2   == IF ex THEN t1 ELSE Extend(t1, pos1, r2)
           k    == Integers(t2[pos1 + 1], env[p])
           pos2 == IF ex THEN pos1 ELSE pos1 + 1
           row  == IF ex THEN Lookup(Q, state, defaultRow) ELSE <<>>
           act  == IF ex THEN ArgMax(row) ELSE k
           drw  == (IF nT = 1 THEN <<u>> ELSE <<>>) \o (IF ex THEN <<>> ELSE <<k>>)
       IN  /\ rng'  = [rng EXCEPT ![p].pos = pos2]
           /\ tape' = [tape EXCEPT ![sid] = t2]
           /\ Q'    = IF ex THEN TableAfterLookup(Q, state, defaultRow) ELSE Q
           /\ log'  = [log EXCEPT ![p] = Append(@,
                         [state |-> state, evaluate |-> evaluate,
                          present |-> state \in DOMAIN Q,
                          branch |-> IF ex THEN "exploit" ELSE "explore",
                          draws |-> drw, row |-> row, action |-> act,
                          before |-> pos, after |-> pos2])]
  /\ UNCHANGED <<status, attrs, req, epsilon, env, defaultRow>>

\* ---- the specifications -------------------------------------------------
Fresh ==
  /\ status  = [p \in Policies |-> "none"]
  /\ attrs   = [p \in Policies |-> {}]
  /\ req     = [p \in Policies |-> [n |-> 0, epsilon |-> 0, seed |-> 0]]
  /\ epsilon = [p \in Policies |-> 0]
  /\ env     = [p \in Policies |-> 0]
  /\ rng     = [p \in Policies |-> [stream |-> NoStream, pos |-> 0]]
  /\ tape    = [s \in Streams |-> <<>>]
  /\ log     = [p \in Policies |-> <<>>]

\* one policy instance, any constructor arguments, any calls
Init ==
  /\ Fresh
  /\ \E n \in 1..MaxActions :
       /\ defaultRow = Zeros(n)
       /\ Q \in Tables(n)

Next ==
  \/ \E p \in Solo, n \in 1..MaxActions, eps \in Epsilons, seed \in SoloSeeds :
       Construct(p, n, eps, seed)
  \/ \E p \in Solo, state \in States, evaluate \in BOOLEAN :
       /\ Len(log[p]) < MaxCalls
       /\ Select(p, state, evaluate)

Spec == Init /\ [][Next]_vars

\* two policy instances side by side: the second is constructed with the
\* arguments of the first and is given the calls of the first, in order
InitPair ==
  /\ Fresh
  /\ \E n \in 1..MaxActions :
       /\ defaultRow = Zeros(n)
       /\ Q \in Tables(n)

NextPair ==
  \/ \E eps \in Epsilons, seed \in Seeds :
       Construct(1, Len(defaultRow), eps, seed)
  \/ /\ status[1] = "ok"
     /\ Construct(2, req[1].n, req[1].epsilon, req[1].seed)
  \/ \E state \in PairStates, evaluate \in BOOLEAN :
       /\ Len(log[1]) < MaxCalls
       /\ Select(1, state, evaluate)
  \/ /\ Len(log[2]) < Len(log[1])
     /\ Select(2, log[1][Len(log[2]) + 1].state, log[1][Len(log[2]) + 1].evaluate)

SpecPair == InitPair /\ [][NextPair]_vars

\* ---- properties ---------------------------------------------------------
\* a is the lowest index (0-based) at which row takes its maximum
FirstMax(row, a) ==
  /\ a \in 0..(Len(row) - 1)
  /\ \A j \in 1..Len(row) : row[j] <= row[a + 1]
  /\ \A j \in 1..a : row[j] < row[a + 1]

Calls(p) == 1..Len(log[p])

\* C1: a call with evaluate = false exploits (returns the argmax of Q[state])
\* exactly when the threshold draw u is strictly greater than epsilon, and
\* otherwise, u = epsilon included, returns the integer drawn; a call with
\* evaluate = true never explores.
C1_BranchByThreshold ==
  \A p \in Policies : \A i \in Calls(p) :
    LET e == log[p][i] IN
    /\ e.evaluate => e.branch = "exploit"
    /\ ~e.evaluate =>
         /\ Len(e.draws) >= 1
         /\ (e.branch = "exploit") <=> (e.draws[1] > epsilon[p])
         /\ (e.branch = "explore") <=> (e.draws[1] <= epsilon[p])
         /\ e.branch = "exploit" => FirstMax(e.row, e.action)
         /\ e.branch = "explore" => Len(e.draws) = 2 /\ e.action = e.draws[2]

C1_Witness ==
  \E p \in Policies : \E i \in Calls(p), j \in Calls(p) :
    /\ ~log[p][i].evaluate /\ log[p][i].branch = "explore"
    /\ Len(log[p][i].draws) = 2 /\ log[p][i].draws[1] = epsilon[p]
    /\ ~log[p][j].evaluate /\ log[p][j].branch = "exploit"
    /\ Len(log[p][j].draws) = 1 /\ log[p][j].draws[1] > epsilon[p]

\* C2: with evaluate = true the action returned is the lowest index holding
\* the maximum of the state's row (first occurrence on ties), and two such
\* calls on the same state return the same action wherever the generator is.
C2_EvaluateFirstMax ==
  \A p \in Policies : \A i \in Calls(p) :
    LET e == log[p][i] IN
    e.evaluate =>
      /\ FirstMax(e.row, e.action)
      /\ e.row = Q[e.state]
      /\ \A j \in Calls(p) :
           (log[p][j].evaluate /\ log[p][j].state = e.state)
             => log[p][j].action = e.action

C2_Witness ==
  \E p \in Policies : \E i \in Calls(p), j \in Calls(p) :
    LET e == log[p][i]
        f == log[p][j] IN
    /\ i < j
    /\ ~e.evaluate /\ e.after > e.before
    /\ f.evaluate /\ f.before > 0 /\ f.after = f.before
    /\ Len(f.row) >= 2 /\ f.row[1] = 1 /\ f.row[2] = 1
    /\ f.action = 0

\* C3: construction fails, leaving no attribute set and no generator made,
\* exactly when epsilon is outside [0,1]; it succeeds for 0, for 1 and for
\* everything between.
C3_ConstructionValidates ==
  \A p \in Policies :
    status[p] # "none" =>
      /\ (status[p] = "failed") <=> (req[p].epsilon < 0 \/ req[p].epsilon > Scale)
      /\ (status[p] = "ok") <=> (req[p].epsilon \in 0..Scale)
      /\ status[p] = "failed" =>
           attrs[p] = {} /\ rng[p].stream = NoStream /\ log[p] = <<>>
      /\ status[p] = "ok" => attrs[p] = Attrs /\ rng[p].stream # NoStream

C3_Witness ==
  \E p \in Policies :
    status[p] = "failed" /\ req[p].epsilon > Scale /\ attrs[p] = {}

\* C4: every action returned lies in [0, action_space_size), on either
\* branch, when the row looked up has action_space_size entries.
C4_ActionInRange ==
  \A p \in Policies : \A i \in Calls(p) :
    LET e == log[p][i] IN
    (e.branch = "explore" \/ Len(e.row) = env[p])
      => e.action \in 0..(env[p] - 1)

C4_Witness ==
  \E p \in Policies : \E i \in Calls(p), j \in Calls(p) :
    /\ log[p][i].branch = "explore" /\ env[p] > 1
    /\ log[p][i].action = env[p] - 1
    /\ log[p][j].branch = "exploit" /\ Len(log[p][j].row) = env[p]
    /\ log[p][j].action = env[p] - 1

\* C5: two policies built with the same seed, epsilon and action-space size
\* and given the same calls in the same order return the same actions and
\* have their generators at the same position after every call.
SameCalls(p, q, i) ==
  \A j \in 1..i :
    /\ log[p][j].state = log[q][j].state
    /\ log[p][j].evaluate = log[q][j].evaluate

C5_Reproducible ==
  \A p \in Policies, q \in Policies :
    ( /\ status[p] = "ok" /\ status[q] = "ok"
      /\ req[p].seed = req[q].seed
      /\ req[p].epsilon = req[q].epsilon
      /\ req[p].n = req[q].n )
    => \A i \in Calls(p) \cap Calls(q) :
         SameCalls(p, q, i) =>
           /\ log[p][i].action = log[q][i].action
           /\ log[p][i].after = log[q][i].after

C5_Witness ==
  /\ status[1] = "ok" /\ status[2] = "ok"
  /\ req[1] = req[2]
  /\ Len(log[1]) = 2 /\ Len(log[2]) = 2
  /\ SameCalls(1, 2, 2)
  /\ log[1][1].branch = "explore" /\ log[1][2].branch = "exploit"
  /\ ~log[1][2].evaluate

\* C6: a call consumes no draw when evaluate = true, one draw (the threshold)
\* when it exploits with evaluate = false, and two draws (the threshold, then
\* the integer) when it explores; so the draws consumed in total are the
\* number of evaluate = false calls plus the number of explorations.
C6_DrawCount ==
  \A p \in Policies :
    /\ \A i \in Calls(p) :
         LET e == log[p][i]
             t == tape[rng[p].stream] IN
         /\ e.evaluate => e.after = e.before /\ e.draws = <<>>
         /\ (~e.evaluate /\ e.branch = "exploit") =>
              /\ e.after = e.before + 1
              /\ e.draws = <<t[e.before + 1]>>
         /\ e.branch = "explore" =>
              /\ ~e.evaluate
              /\ e.after = e.before + 2
              /\ e.draws = <<t[e.before + 1], Integers(t[e.before + 2], env[p])>>
         /\ e.before = (IF i = 1 THEN 0 ELSE log[p][i - 1].after)
    /\ status[p] = "ok" =>
         rng[p].pos = Cardinality({i \in Calls(p) : ~log[p][i].evaluate})
                      + Cardinality({i \in Calls(p) : log[p][i].branch = "explore"})

C6_Witness ==
  \E p \in Policies : \E i \in Calls(p), j \in Calls(p) :
    /\ i < j
    /\ log[p][i].branch = "explore" /\ Len(log[p][i].draws) = 2
    /\ ~log[p][j].evaluate /\ log[p][j].branch = "exploit"
    /\ Len(log[p][j].draws) = 1
    /\ rng[p].pos = 3

\* C7: with epsilon = 0 and evaluate = false every call, whatever the
\* threshold draw, returns the argmax action and consumes exactly one draw.
C7_ZeroEpsilonAlwaysExploits ==
  \A p \in Policies : \A i \in Calls(p) :
    LET e == log[p][i] IN
    (epsilon[p] = 0 /\ ~e.evaluate) =>
      /\ e.branch = "exploit"
      /\ FirstMax(e.row, e.action)
      /\ e.after = e.before + 1

\* C8: with epsilon = 1 and evaluate = false every call, whatever the
\* threshold draw, explores: the action is the integer drawn from
\* [0, action_space_size) and the table is not consulted.
C8_OneEpsilonAlwaysExplores ==
  \A p \in Policies : \A i \in Calls(p) :
    LET e == log[p][i]
        t == tape[rng[p].stream] IN
    (epsilon[p] = Scale /\ ~e.evaluate) =>
      /\ e.branch = "explore"
      /\ e.row = <<>>
      /\ e.after = e.before + 2
      /\ e.action = Integers(t[e.before + 2], env[p])
      /\ e.action \in 0..(env[p] - 1)

C8_Witness ==
  \E p \in Policies : \E i \in Calls(p), j \in Calls(p) :
    /\ epsilon[p] = Scale /\ i # j
    /\ ~log[p][i].evaluate /\ log[p][i].draws[1] = 0
    /\ ~log[p][j].evaluate /\ log[p][j].draws[1] = Scale - 1

\* C9 as stated: no step changes the table's key set or any of its rows.
C9_TableNeverChanges == [][Q' = Q]_vars

\* C9 amended: no call changes or removes a row the table holds, and an
\* exploring call leaves the table as it is; the one change a call makes is
\* that an exploiting lookup of a state the DefaultDict does not hold
\* inserts that state with the default row.
Called(p) == Len(log'[p]) = Len(log[p]) + 1

C9_OnlyDefaultInsertion ==
  [][ /\ \A s \in DOMAIN Q : s \in DOMAIN Q' /\ Q'[s] = Q[s]
      /\ \A s \in DOMAIN Q' \ DOMAIN Q :
           /\ Q'[s] = defaultRow
           /\ \E p \in Policies :
                /\ Called(p)
                /\ log'[p][Len(log'[p])].state = s
                /\ log'[p][Len(log'[p])].branch = "exploit"
      /\ \A p \in Policies :
           (Called(p) /\ log'[p][Len(log'[p])].branch = "explore") => Q' = Q
      /\ \A p \in Policies :
           (Called(p) /\ log'[p][Len(log'[p])].state \in DOMAIN Q) => Q' = Q
    ]_vars

C9_Witness ==
  \E p \in Policies : \E i \in Calls(p), j \in Calls(p) :
    /\ log[p][i].branch = "exploit" /\ ~log[p][i].present
    /\ log[p][i].state \in DOMAIN Q
    /\ log[p][j].branch = "exploit" /\ log[p][j].present /\ i < j
    /\ log[p][j].row # defaultRow

\* C10: once constructed, a policy's epsilon is the value it was given and
\* lies in [0,1], its action-space size is the one it was given, and a call
\* changes nothing of the policy but the position of its generator.
C10_ConfigurationFixed ==
  /\ [](\A p \in Policies :
          status[p] = "ok" =>
            /\ epsilon[p] = req[p].epsilon
            /\ epsilon[p] \in 0..Scale
            /\ env[p] = req[p].n)
  /\ [][\A p \in Policies :
          status[p] = "ok" =>
            /\ status'[p] = "ok"
            /\ epsilon'[p] = epsilon[p]
            /\ env'[p] = env[p]
            /\ attrs'[p] = attrs[p]
            /\ rng'[p].stream = rng[p].stream
            /\ rng'[p].pos >= rng[p].pos]_vars

C10_Witness ==
  \E p \in Policies :
    /\ status[p] = "ok" /\ Len(log[p]) = MaxCalls
    /\ rng[p].pos > 0
    /\ epsilon[p] = req[p].epsilon /\ epsilon[p] \in {0, Scale}
====
